---- MODULE Spec2Model ----
(***************************************************************************)
(* Model of src/app.py (Afya Toto dashboard): the start-up load of the     *)
(* model registry and the feature-importance table, get_top_features, the  *)
(* /api/predict endpoint and the Dash make_prediction callback.            *)
(*                                                                         *)
(* Python strings that the code transforms (the targets, which are         *)
(* lower-cased) are sequences of one-character strings; strings the code   *)
(* only passes around (feature names, messages) are TLA+ strings.          *)
(* Importance values are integers standing for tenths (9 is 0.9).          *)
(***************************************************************************)
EXTENDS Integers, Sequences, FiniteSets, TLC

VARIABLES
    phase,                \* position of the module-level start-up code
    model_pkl,            \* what reading MODEL_PATH yields (the environment)
    features_pkl,         \* what reading FEATURES_PATH yields (the environment)
    trained_models,       \* module global, app.py:23/28
    feature_importances,  \* module global, app.py:31/38
    top_features,         \* top_features_under5/_infant/_neonatal, app.py:75-77
    request,              \* the last call made and its arguments
    response,             \* what that call returned
    invoked               \* the registry keys whose model object was ever called

vars == <<phase, model_pkl, features_pkl, trained_models, feature_importances,
          top_features, request, response, invoked>>

-----------------------------------------------------------------------------
(* Bounds of the model *)

MaxRows == 3          \* rows of a table handed to get_top_features (SelectorSpec)
MaxSelected == 1      \* features chosen in one dropdown
MaxClicks == 1        \* n_clicks of the Predict button

-----------------------------------------------------------------------------
(* Python values *)

None == "None"

Under5 == <<"U", "n", "d", "e", "r", "5">>
under5 == <<"u", "n", "d", "e", "r", "5">>
Infant == <<"I", "n", "f", "a", "n", "t">>
Neonatal == <<"N", "e", "o", "n", "a", "t", "a", "l">>

RowTargets == {Under5, Infant}
QueryTargets == {Under5, under5, Infant, Neonatal}
FeatureNames == {"age", "region"}
Importances == {5, 9}

TopNDefault == 20
TopNs == (-1 .. MaxRows) \cup {TopNDefault}

\* str.lower() on the characters the targets are written with
lower_char(c) ==
    CASE c = "U" -> "u"
      [] c = "I" -> "i"
      [] c = "N" -> "n"
      [] OTHER -> c

str_lower(s) == [i \in 1 .. Len(s) |-> lower_char(s[i])]

BoundedSeq(S, n) == UNION {[1 .. k -> S] : k \in 0 .. n}

Prefix(s, n) == [i \in 1 .. (IF n < Len(s) THEN n ELSE Len(s)) |-> s[i]]

-----------------------------------------------------------------------------
(* DataFrames: the columns present and the rows in index order.  A row     *)
(* carries a filler in the fields of a column the frame does not have;     *)
(* reading such a column is a KeyError, never the filler.                  *)

required_cols == {"Target", "Feature", "Importance"}

RowsOver(cols) ==
    {[Target |-> t, Feature |-> f, Importance |-> i] :
        t \in (IF "Target" \in cols THEN RowTargets ELSE {<<>>}),
        f \in (IF "Feature" \in cols THEN FeatureNames ELSE {""}),
        i \in (IF "Importance" \in cols THEN Importances ELSE {0})}

DataFrames(maxRows) ==
    UNION {{[columns |-> cols, rows |-> rs] : rs \in BoundedSeq(RowsOver(cols), maxRows)} :
              cols \in SUBSET required_cols}

\* pd.DataFrame(columns=['Target', 'Feature', 'Importance'])
EmptyFrame == [columns |-> required_cols, rows |-> <<>>]

\* DataFrame.empty: any axis of length 0
df_empty(df) == Len(df.rows) = 0 \/ df.columns = {}

Return(v) == [raised |-> FALSE, value |-> v]
Raise == [raised |-> TRUE, value |-> <<>>]

-----------------------------------------------------------------------------
(* get_top_features, app.py:43-70 *)

\* faulty variant: the comparison without .str.lower() / .lower()
target_matches_exact(row_target, target) == row_target = target

\* faulty variant: the boolean mask left out, every row kept
target_matches_all(row_target, target) == Len(row_target) >= 0 /\ Len(target) >= 0

\* feature_importances['Target'].str.lower() == target.lower(), one row of the mask
target_matches(row_target, target) == str_lower(row_target) = str_lower(target)

\* faulty variant: any() where the code has all()
has_some_required_col(df) == \E col \in required_cols : col \in df.columns

\* all(col in feature_importances.columns for col in required_cols)
has_required_cols(df) == \A col \in required_cols : col \in df.columns

MaxImportance(rows) ==
    CHOOSE m \in {rows[i].Importance : i \in 1 .. Len(rows)} :
        \A i \in 1 .. Len(rows) : rows[i].Importance <= m

RemoveAt(rows, i) ==
    [j \in 1 .. Len(rows) - 1 |-> IF j < i THEN rows[j] ELSE rows[j + 1]]

\* faulty variant: keep='last', the last of the rows with the largest value is taken first
RECURSIVE nlargest_keep_last(_, _)
nlargest_keep_last(rows, n) ==
    IF n <= 0 \/ rows = <<>>
    THEN <<>>
    ELSE LET m == MaxImportance(rows)
             i == CHOOSE k \in 1 .. Len(rows) :
                      /\ rows[k].Importance = m
                      /\ \A j \in (k + 1) .. Len(rows) : rows[j].Importance # m
         IN  <<rows[i]>> \o nlargest_keep_last(RemoveAt(rows, i), n - 1)

\* faulty variant: sort_values(ascending=False).head(n), where a negative n keeps all
\* but the last -n rows
RECURSIVE nlargest_head(_, _)
nlargest_head(rows, n) ==
    LET k == IF n < 0 THEN Len(rows) + n ELSE n
    IN  IF k <= 0 \/ rows = <<>>
        THEN <<>>
        ELSE LET m == MaxImportance(rows)
                 i == CHOOSE j \in 1 .. Len(rows) :
                          /\ rows[j].Importance = m
                          /\ \A h \in 1 .. (j - 1) : rows[h].Importance # m
             IN  <<rows[i]>> \o nlargest_head(RemoveAt(rows, i), k - 1)

\* DataFrame.nlargest(n, 'Importance'), keep='first': n <= 0 selects nothing;
\* otherwise the first row holding the largest value, then the n - 1 largest
\* of the rows that are left
RECURSIVE nlargest(_, _)
nlargest(rows, n) ==
    IF n <= 0 \/ rows = <<>>
    THEN <<>>
    ELSE LET m == MaxImportance(rows)
             i == CHOOSE k \in 1 .. Len(rows) :
                      /\ rows[k].Importance = m
                      /\ \A j \in 1 .. (k - 1) : rows[j].Importance # m
         IN  <<rows[i]>> \o nlargest(RemoveAt(rows, i), n - 1)

\* [...]['Feature'].tolist()
feature_list(rows) == [i \in 1 .. Len(rows) |-> rows[i].Feature]

get_top_features(target, top_n) ==
    LET df == feature_importances
    IN  IF df_empty(df)
        THEN Return(<<>>)                                           \* 48-50
        ELSE IF ~has_required_cols(df)
        THEN Return(<<>>)                                           \* 53-56
        ELSE IF "Target" \notin df.columns
        THEN Raise                                                  \* 60: KeyError
        ELSE LET filtered_df ==
                     SelectSeq(df.rows, LAMBDA r : target_matches(r.Target, target))
             IN  IF filtered_df = <<>>
                 THEN Return(<<>>)                                  \* 63-65
                 ELSE IF "Importance" \notin df.columns \/ "Feature" \notin df.columns
                 THEN Raise                                         \* 68: KeyError
                 ELSE Return(feature_list(nlargest(filtered_df, top_n)))

-----------------------------------------------------------------------------
(* The model registry and the start-up load, app.py:21-38 *)

RegistryKeys == {Under5, Infant}

\* a value stored under a key: a model object, or None
ModelObjects == {"estimator", None}

Registries == UNION {[ks -> ModelObjects] : ks \in SUBSET RegistryKeys}

EmptyRegistry == [k \in {} |-> None]

\* what open(MODEL_PATH) / pickle.load yields: an exception, or the pickled mapping
ModelArtifacts ==
    {[ok |-> FALSE, value |-> EmptyRegistry]} \cup {[ok |-> TRUE, value |-> r] : r \in Registries}

Row(t, f, i) == [Target |-> t, Feature |-> f, Importance |-> i]

\* a table ranking two targets: Under5 by age 0.9 and region 0.5, Infant by age 0.7
ScenarioFrame ==
    [columns |-> required_cols,
     rows |-> <<Row(Under5, "age", 9), Row(Under5, "region", 5), Row(Infant, "age", 7)>>]

\* the tables found pickled at start-up: one ranking two targets, one with tied
\* scores, one without rows, one without the Importance column, one holding
\* another column only
LoadedFrames ==
    {ScenarioFrame,
     [columns |-> required_cols,
      rows |-> <<Row(Infant, "region", 7), Row(Infant, "age", 7)>>],
     EmptyFrame,
     [columns |-> {"Target", "Feature"}, rows |-> <<Row(Under5, "age", 0)>>],
     [columns |-> {}, rows |-> <<Row(<<>>, "", 0)>>]}

\* what pd.read_pickle(FEATURES_PATH) yields: an exception, an object that is
\* no DataFrame, or a DataFrame
FeatureArtifacts ==
    {[kind |-> "unreadable", value |-> EmptyFrame], [kind |-> "not_dataframe", value |-> EmptyFrame]}
    \cup {[kind |-> "dataframe", value |-> df] : df \in LoadedFrames}

\* faulty variant: the fallback registers a stand-in model under the example key
load_trained_models_stub(artifact) ==
    IF artifact.ok THEN artifact.value ELSE [k \in {Under5} |-> "estimator"]

\* try: trained_models = pickle.load(f)  except Exception: trained_models = {}
load_trained_models(artifact) ==
    IF artifact.ok THEN artifact.value ELSE EmptyRegistry

\* try: read_pickle; raise ValueError unless a DataFrame
\* except Exception: pd.DataFrame(columns=['Target', 'Feature', 'Importance'])
load_feature_importances(artifact) ==
    IF artifact.kind = "dataframe" THEN artifact.value ELSE EmptyFrame

\* dict.get(key): the value, or None when the key is absent
dict_get(d, key) == IF key \in DOMAIN d THEN d[key] ELSE None

\* truth value of an object in an if statement
truthy(v) == v # None

-----------------------------------------------------------------------------
(* /api/predict, app.py:125-136 *)

PREDICTION_PLACEHOLDER == "Prediction logic here"
MODEL_NOT_FOUND == "Model for 'Under5' not found."

\* JSON bodies of requests
Bodies == {[target |-> t, features |-> fs] :
              t \in {Under5, Infant, Neonatal}, fs \in {<<>>, <<"age">>}}

\* faulty variant: the model is looked up under the target the body names and called
api_predict_by_target(data) ==
    LET prediction_model == dict_get(trained_models, data.target)
    IN  [prediction |-> IF truthy(prediction_model)
                        THEN PREDICTION_PLACEHOLDER
                        ELSE MODEL_NOT_FOUND,
         called |-> IF truthy(prediction_model) THEN {data.target} ELSE {}]

\* the JSON answer, and the registry keys whose model the handler called
api_predict(data) ==
    LET prediction_model == dict_get(trained_models, Under5)       \* 130
    IN  [prediction |-> IF truthy(prediction_model)                 \* 131
                        THEN PREDICTION_PLACEHOLDER                \* 133
                        ELSE MODEL_NOT_FOUND,                      \* 135
         called |-> {}]

-----------------------------------------------------------------------------
(* make_prediction, app.py:189-205 *)

\* a dropdown's value: None, or the list of the options chosen
NoValue == [is_none |-> TRUE, value |-> <<>>]
Chosen(fs) == [is_none |-> FALSE, value |-> fs]

DropdownValues(options) ==
    {NoValue} \cup {Chosen(Prefix(options, k)) : k \in 0 .. MaxSelected}

\* x or []
or_empty_list(x) == IF x.is_none \/ x.value = <<>> THEN <<>> ELSE x.value

make_prediction(n_clicks, under5_features, infant_features, neonatal_features) ==
    IF n_clicks < 1
    THEN [message |-> "Select features from the dropdowns and click Predict."]
    ELSE [message |-> "Prediction logic would run with these features",
          selected_features |->
              [Under5_Features |-> or_empty_list(under5_features),
               Infant_Features |-> or_empty_list(infant_features),
               Neonatal_Features |-> or_empty_list(neonatal_features)]]

-----------------------------------------------------------------------------
(* Start-up, then requests in any order *)

NoCall == [op |-> "none"]

Init ==
    /\ phase = "load_models"
    /\ model_pkl \in ModelArtifacts
    /\ features_pkl \in FeatureArtifacts
    /\ trained_models = EmptyRegistry            \* not bound yet
    /\ feature_importances = EmptyFrame          \* not bound yet
    /\ top_features = [under5 |-> <<>>, infant |-> <<>>, neonatal |-> <<>>]
    /\ request = NoCall
    /\ response = NoCall
    /\ invoked = {}

\* app.py:21-28
LoadModels ==
    /\ phase = "load_models"
    /\ trained_models' = load_trained_models(model_pkl)
    /\ phase' = "load_features"
    /\ UNCHANGED <<model_pkl, features_pkl, feature_importances, top_features,
                   request, response, invoked>>

\* app.py:30-38
LoadFeatures ==
    /\ phase = "load_features"
    /\ feature_importances' = load_feature_importances(features_pkl)
    /\ phase' = "extract_top_features"
    /\ UNCHANGED <<model_pkl, features_pkl, trained_models, top_features,
                   request, response, invoked>>

\* app.py:75-77; an exception here ends the import of the module
ExtractTopFeatures ==
    /\ phase = "extract_top_features"
    /\ LET u == get_top_features(Under5, TopNDefault)
           i == get_top_features(Infant, TopNDefault)
           n == get_top_features(Neonatal, TopNDefault)
       IN  IF u.raised \/ i.raised \/ n.raised
           THEN /\ phase' = "crashed"
                /\ UNCHANGED top_features
           ELSE /\ phase' = "serving"
                /\ top_features' = [under5 |-> u.value, infant |-> i.value,
                                    neonatal |-> n.value]
    /\ UNCHANGED <<model_pkl, features_pkl, trained_models, feature_importances,
                   request, response, invoked>>

\* a call of get_top_features(target, top_n)
GetTopFeaturesCall ==
    /\ phase = "serving"
    /\ \E target \in QueryTargets, top_n \in TopNs :
          /\ request' = [op |-> "get_top_features", target |-> target, top_n |-> top_n]
          /\ response' = get_top_features(target, top_n)
    /\ UNCHANGED <<phase, model_pkl, features_pkl, trained_models, feature_importances,
                   top_features, invoked>>

\* faulty variant: the handler reloads the registry from MODEL_PATH on a miss
ApiPredictReloading ==
    /\ phase = "serving"
    /\ \E data \in Bodies :
          /\ request' = [op |-> "api_predict", data |-> data]
          /\ response' = [prediction |-> api_predict(data).prediction]
          /\ invoked' = invoked \cup api_predict(data).called
          /\ trained_models' =
                 IF truthy(dict_get(trained_models, Under5))
                 THEN trained_models
                 ELSE [k \in {Under5} |-> "estimator"]
    /\ UNCHANGED <<phase, model_pkl, features_pkl, feature_importances, top_features>>

\* POST /api/predict
ApiPredict ==
    /\ phase = "serving"
    /\ \E data \in Bodies :
          /\ request' = [op |-> "api_predict", data |-> data]
          /\ response' = [prediction |-> api_predict(data).prediction]
          /\ invoked' = invoked \cup api_predict(data).called
    /\ UNCHANGED <<phase, model_pkl, features_pkl, trained_models, feature_importances,
                   top_features>>

\* the Predict callback; each dropdown offers the features extracted at start-up
MakePrediction ==
    /\ phase = "serving"
    /\ \E n_clicks \in 0 .. MaxClicks,
          u \in DropdownValues(top_features.under5),
          i \in DropdownValues(top_features.infant),
          n \in DropdownValues(top_features.neonatal) :
          /\ request' = [op |-> "make_prediction", n_clicks |-> n_clicks,
                         under5_features |-> u, infant_features |-> i,
                         neonatal_features |-> n]
          /\ response' = make_prediction(n_clicks, u, i, n)
    /\ UNCHANGED <<phase, model_pkl, features_pkl, trained_models, feature_importances,
                   top_features, invoked>>

Next ==
    \/ LoadModels
    \/ LoadFeatures
    \/ ExtractTopFeatures
    \/ GetTopFeaturesCall
    \/ ApiPredict
    \/ MakePrediction

Spec == Init /\ [][Next]_vars

-----------------------------------------------------------------------------
(* get_top_features as a function of the table: the server is up on any     *)
(* table of at most MaxRows rows, and is asked for any target and any N     *)

SelectorInit ==
    /\ phase = "serving"
    /\ model_pkl = [ok |-> FALSE, value |-> EmptyRegistry]
    /\ features_pkl \in {[kind |-> "dataframe", value |-> df] :
                            df \in DataFrames(MaxRows) \cup {ScenarioFrame}}
    /\ trained_models = load_trained_models(model_pkl)
    /\ feature_importances = load_feature_importances(features_pkl)
    /\ top_features = [under5 |-> get_top_features(Under5, TopNDefault).value,
                       infant |-> get_top_features(Infant, TopNDefault).value,
                       neonatal |-> get_top_features(Neonatal, TopNDefault).value]
    /\ request = NoCall
    /\ response = NoCall
    /\ invoked = {}

\* one call on the table
SelectorNext ==
    /\ request = NoCall
    /\ GetTopFeaturesCall

SelectorSpec == SelectorInit /\ [][SelectorNext]_vars

-----------------------------------------------------------------------------
(* Properties *)

IsTopFeaturesCall == request.op = "get_top_features"
IsApiCall == request.op = "api_predict"
IsPredictionCall == request.op = "make_prediction"

Table == feature_importances
HasAllColumns == required_cols \subseteq Table.columns

\* the index positions of the rows whose Target is target, letter case aside
MatchingRows(target) ==
    IF "Target" \in Table.columns
    THEN {i \in 1 .. Len(Table.rows) : str_lower(Table.rows[i].Target) = str_lower(target)}
    ELSE {}

\* row i is listed before row j: a larger score, or the same score and earlier in the table
ListedBefore(i, j) ==
    \/ Table.rows[i].Importance > Table.rows[j].Importance
    \/ Table.rows[i].Importance = Table.rows[j].Importance /\ i < j

RankAmong(S, i) == Cardinality({j \in S : ListedBefore(j, i)}) + 1

Smaller(a, b) == IF a < b THEN a ELSE b

RankedFeatures(target, n) ==
    LET S == MatchingRows(target)
    IN  [k \in 1 .. Smaller(n, Cardinality(S)) |->
            Table.rows[CHOOSE i \in S : RankAmong(S, i) = k].Feature]

Occurrences(seq, x) == Cardinality({k \in 1 .. Len(seq) : seq[k] = x})

\* C1: for N > 0, get_top_features(target, N) is the Feature of the rows matching
\* the target, by Importance descending, rows of equal Importance in table order,
\* cut to the first N: min(N, number of matching rows) entries.
C1_TopFeaturesRankedStableTruncated ==
    (IsTopFeaturesCall /\ HasAllColumns /\ request.top_n > 0) =>
        /\ ~response.raised
        /\ Len(response.value) = Smaller(request.top_n, Cardinality(MatchingRows(request.target)))
        /\ response.value = RankedFeatures(request.target, request.top_n)

\* C1 happens: three matching rows, the first two tied on different features, the
\* largest last, and N = 2 cuts the list
C1_Witness ==
    /\ IsTopFeaturesCall /\ HasAllColumns
    /\ request.top_n = 2
    /\ request.target = under5
    /\ Len(Table.rows) = 3
    /\ MatchingRows(request.target) = {1, 2, 3}
    /\ Table.rows[1].Importance = Table.rows[2].Importance
    /\ Table.rows[1].Feature = "region" /\ Table.rows[2].Feature = "age"
    /\ Table.rows[3].Importance > Table.rows[1].Importance
    /\ response = Return(<<Table.rows[3].Feature, "region">>)

\* C2: a row contributes exactly when its Target equals the requested target after
\* lower-casing both: every name returned is the Feature of such a row, with N at
\* least the table's length each such row is returned once, and on the scenario
\* table get_top_features("under5", 1) is ["age"].
C2_CaseInsensitiveMatch ==
    (IsTopFeaturesCall /\ HasAllColumns) =>
        /\ \A k \in 1 .. Len(response.value) :
               \E i \in MatchingRows(request.target) : Table.rows[i].Feature = response.value[k]
        /\ request.top_n >= Len(Table.rows) =>
               \A f \in FeatureNames :
                   Occurrences(response.value, f) =
                       Cardinality({i \in MatchingRows(request.target) : Table.rows[i].Feature = f})
        /\ (Table = ScenarioFrame /\ request.target = under5 /\ request.top_n = 1) =>
               response = Return(<<"age">>)

\* C2 happens: the scenario table asked for "under5", 1
C2_Witness ==
    /\ IsTopFeaturesCall
    /\ Table = ScenarioFrame
    /\ request.target = under5 /\ request.top_n = 1
    /\ response = Return(<<"age">>)

\* C3: a target that matches no row of the table gets an empty list for every N,
\* and nothing is raised.
C3_UnknownTargetEmpty ==
    (IsTopFeaturesCall /\ MatchingRows(request.target) = {}) => response = Return(<<>>)

\* C3 happens: a full table with rows, none of them for the target asked, N > 0
C3_Witness ==
    /\ IsTopFeaturesCall /\ HasAllColumns
    /\ Len(Table.rows) = 2
    /\ request.target = Neonatal /\ request.top_n = 2
    /\ MatchingRows(request.target) = {}
    /\ response = Return(<<>>)

\* C4: for N <= 0 get_top_features returns an empty list whatever the table holds,
\* also when the target has matching rows.
C4_NonPositiveNEmpty ==
    (IsTopFeaturesCall /\ request.top_n <= 0) => response = Return(<<>>)

\* C4 happens: N = -1 on a target with three matching rows
C4_Witness ==
    /\ IsTopFeaturesCall /\ HasAllColumns
    /\ request.top_n = -1
    /\ Cardinality(MatchingRows(request.target)) = 3
    /\ response = Return(<<>>)

\* C5: a table that is empty or lacks one of Target, Feature, Importance gives an
\* empty list for every target and N and raises nothing: no column is read before
\* the columns are checked.
C5_EmptyOrMissingColumnsEmpty ==
    (IsTopFeaturesCall /\ (Len(Table.rows) = 0 \/ ~HasAllColumns)) => response = Return(<<>>)

\* C5 happens: a table with rows and the Feature column only
C5_Witness ==
    /\ IsTopFeaturesCall
    /\ Table.columns = {"Feature"}
    /\ Len(Table.rows) = 2
    /\ request.top_n = 1
    /\ response = Return(<<>>)

\* C6: when loading the model artifact fails the process goes on with an empty
\* registry, every lookup reports absent and api_predict answers not-found on
\* every request; a failed or non-DataFrame importance load leaves the empty table.
C6_LoadFailureFallsBack ==
    /\ phase # "crashed"
    /\ (~model_pkl.ok /\ phase # "load_models") =>
           /\ trained_models = EmptyRegistry
           /\ \A t \in QueryTargets : dict_get(trained_models, t) = None
           /\ IsApiCall => response.prediction = MODEL_NOT_FOUND
    /\ (features_pkl.kind # "dataframe" /\ phase \notin {"load_models", "load_features"}) =>
           /\ feature_importances = EmptyFrame
           /\ IsTopFeaturesCall => response = Return(<<>>)

\* C6 happens: both loads failed, the server runs and has answered a request
C6_Witness ==
    /\ ~model_pkl.ok
    /\ features_pkl.kind = "not_dataframe"
    /\ phase = "serving"
    /\ IsApiCall
    /\ request.data.target = Under5
    /\ response.prediction = MODEL_NOT_FOUND

\* C7: api_predict takes the missing branch exactly when the registry has no model
\* for the target of the request.
C7_MissingExactlyWhenTargetUnregistered ==
    IsApiCall =>
        (response.prediction = MODEL_NOT_FOUND
            <=> ~truthy(dict_get(trained_models, request.data.target)))

\* C8: a prediction request with an empty feature selection for a target is answered
\* NoFeaturesSelected, never as a prediction that would run, and invokes no model.
C8_EmptySelectionReported ==
    (/\ IsPredictionCall
     /\ request.n_clicks >= 1
     /\ \/ or_empty_list(request.under5_features) = <<>>
        \/ or_empty_list(request.infant_features) = <<>>
        \/ or_empty_list(request.neonatal_features) = <<>>) =>
        /\ response.message = "NoFeaturesSelected"
        /\ invoked = {}

\* C9: once start-up is over no step changes trained_models or feature_importances.
C9_RegistryAndTableFrozen ==
    [][phase = "serving" =>
          /\ trained_models' = trained_models
          /\ feature_importances' = feature_importances]_vars

\* C9 happens: a loaded registry and table, and a request served on them
C9_Witness ==
    /\ phase = "serving"
    /\ IsApiCall
    /\ request.data.target = Infant
    /\ DOMAIN trained_models = {Under5, Infant}
    /\ Len(feature_importances.rows) = 3

\* C10 as stated: the answer of api_predict depends only on whether the registry
\* has an entry under "Under5", and no model object is invoked.
C10_AnswerByPresenceOfUnder5 ==
    IsApiCall =>
        /\ response.prediction =
               (IF Under5 \in DOMAIN trained_models
                THEN PREDICTION_PLACEHOLDER
                ELSE MODEL_NOT_FOUND)
        /\ invoked = {}

\* C10 amended: the answer of api_predict depends only on the truth value of
\* trained_models.get("Under5") (not-found when the key is absent or holds None),
\* whatever the body of the request, and no model object is invoked.
C10_AnswerByTruthOfUnder5 ==
    IsApiCall =>
        /\ response.prediction =
               (IF truthy(dict_get(trained_models, Under5))
                THEN PREDICTION_PLACEHOLDER
                ELSE MODEL_NOT_FOUND)
        /\ invoked = {}

\* C10 happens: a request naming Infant, which has no model, answered from Under5
C10_Witness ==
    /\ IsApiCall
    /\ request.data.target = Infant
    /\ request.data.features = <<"age">>
    /\ DOMAIN trained_models = {Under5}
    /\ truthy(trained_models[Under5])
    /\ response.prediction = PREDICTION_PLACEHOLDER
    /\ invoked = {}

====
